---- MODULE Spec2Model ----
(***************************************************************************)
(* Model of the qarbon emissions WASM kernels (lib.rs): the length-        *)
(* validated elementwise kernels, the reduction kernels and the            *)
(* allocate / deallocate pair.                                             *)
(*                                                                         *)
(* f64 is modelled as a miniature IEEE-754 binary format: finite values    *)
(* are integers m * 2^e with a Precision-bit mantissa m and an exponent    *)
(* e in 0..MaxExp, together with +infinity, -infinity and NaN.  Every      *)
(* arithmetic result is rounded to nearest, ties to even, and overflows    *)
(* to an infinity, as the hardware does.  +0 and -0 are one value (they    *)
(* compare equal and no kernel divides by a zero).                         *)
(***************************************************************************)
EXTENDS Integers, Sequences, FiniteSets

\* ------------------------------------------------------------------ bounds
\* Longest buffer the host passes.
MaxLen == 2
\* Mantissa bits of the miniature float format (53 in f64).
Precision == 3
\* Largest exponent of the miniature float format (1023 in f64).
MaxExp == 3
\* Number of block addresses the allocator can hand out.
MaxAddr == 3
\* Largest element count the host asks allocate for.
MaxCount == 2
\* Most buffers the host holds at one time.
MaxOwned == 3
\* Longest values buffer passed to the statistics kernels alone.
MaxValues == 3

\* --------------------------------------------------------------------- f64
RECURSIVE Pow2(_)
Pow2(n) == IF n <= 0 THEN 1 ELSE 2 * Pow2(n - 1)

\* The magnitude one past the largest finite one: a result that rounds to
\* it has overflowed.
Top == Pow2(Precision + MaxExp)

\* f64::MAX of the miniature format.
MaxFinite == (Pow2(Precision) - 1) * Pow2(MaxExp)

\* The finite magnitudes of the format.
Rep == { m * Pow2(e) : m \in 0..(Pow2(Precision) - 1), e \in 0..MaxExp }

F(k) == [cls |-> "fin", v |-> k]
INFINITY == [cls |-> "inf", v |-> 1]
NEG_INFINITY == [cls |-> "inf", v |-> -1]
NAN == [cls |-> "nan", v |-> 0]

IsNaN(x) == x.cls = "nan"
IsFinite(x) == x.cls = "fin"

Abs(k) == IF k < 0 THEN -k ELSE k
Sgn(k) == IF k < 0 THEN -1 ELSE 1

\* The magnitude n/d (n >= 0, d > 0) rounded to nearest, ties to even; Top
\* stands for overflow.
RoundMag(n, d) ==
    IF n >= Top * d THEN Top
    ELSE LET e == CHOOSE x \in 0..MaxExp :
                      /\ n < Pow2(Precision + x) * d
                      /\ (x = 0 \/ n >= Pow2(Precision + x - 1) * d)
             ulp == Pow2(e)
             q == n \div (ulp * d)
             r2 == 2 * (n - q * ulp * d)
             m == IF r2 < ulp * d THEN q
                  ELSE IF r2 > ulp * d THEN q + 1
                  ELSE IF q % 2 = 0 THEN q ELSE q + 1
         IN  m * ulp

\* The float nearest to the rational n/d (d > 0).
FromRational(n, d) ==
    LET m == RoundMag(Abs(n), d)
    IN  IF m = Top THEN (IF n < 0 THEN NEG_INFINITY ELSE INFINITY)
        ELSE F(Sgn(n) * m)

\* `as f64` on a usize.
FromInt(n) == FromRational(n, 1)

\* a + b
FAdd(x, y) ==
    IF IsNaN(x) \/ IsNaN(y) THEN NAN
    ELSE IF x.cls = "inf" THEN (IF y.cls = "inf" /\ y.v # x.v THEN NAN ELSE x)
    ELSE IF y.cls = "inf" THEN y
    ELSE FromRational(x.v + y.v, 1)

\* a * b
FMul(x, y) ==
    IF IsNaN(x) \/ IsNaN(y) THEN NAN
    ELSE IF x.cls = "inf" \/ y.cls = "inf"
         THEN IF x.v = 0 \/ y.v = 0 THEN NAN
              ELSE IF Sgn(x.v) * Sgn(y.v) < 0 THEN NEG_INFINITY ELSE INFINITY
    ELSE FromRational(x.v * y.v, 1)

\* a / b
FDiv(x, y) ==
    IF IsNaN(x) \/ IsNaN(y) THEN NAN
    ELSE IF x.cls = "inf"
         THEN IF y.cls = "inf" THEN NAN
              ELSE IF Sgn(x.v) * Sgn(y.v) < 0 THEN NEG_INFINITY ELSE INFINITY
    ELSE IF y.cls = "inf" THEN F(0)
    ELSE IF y.v = 0
         THEN IF x.v = 0 THEN NAN
              ELSE IF x.v < 0 THEN NEG_INFINITY ELSE INFINITY
    ELSE FromRational(x.v * Sgn(y.v), Abs(y.v))

\* Position of a non-NaN float in the order of the extended reals.
Key(x) == IF x.cls = "inf" THEN x.v * Top ELSE x.v

\* a > b, a <= b, a >= b: false when either side is NaN.
FGt(x, y) == ~IsNaN(x) /\ ~IsNaN(y) /\ Key(x) > Key(y)
FLe(x, y) == ~IsNaN(x) /\ ~IsNaN(y) /\ Key(x) <= Key(y)
FGe(x, y) == ~IsNaN(x) /\ ~IsNaN(y) /\ Key(x) >= Key(y)

\* f64::min, f64::max: a NaN argument is ignored in favour of the other.
FMin(x, y) == IF IsNaN(x) THEN y ELSE IF IsNaN(y) THEN x
              ELSE IF Key(x) <= Key(y) THEN x ELSE y
FMax(x, y) == IF IsNaN(x) THEN y ELSE IF IsNaN(y) THEN x
              ELSE IF Key(x) >= Key(y) THEN x ELSE y

\* ------------------------------------------------------------------- state
VARIABLES
    a,        \* first input buffer (values / distances / consumption / tokens / a)
    b,        \* second input buffer (factors / co2_per_token / weights / b)
    c,        \* third input buffer (co2_per_query)
    out,      \* output buffer (results / result)
    op,       \* the entry point called last
    ret,      \* the bool a validated kernel returned last
    scalar,   \* the f64 a reduction kernel returned last
    divided,  \* whether the last reduction call executed its division
    heap,     \* allocator: element capacity of the block at each address, 0 = free
    owned     \* handles <<ptr, count>> the host got from allocate and has not released

vars == <<a, b, c, out, op, ret, scalar, divided, heap, owned>>

\* Sequences over S of length 0..n.
SeqsUpTo(S, n) == UNION { [1..k -> S] : k \in 0..n }

Range(s) == { s[i] : i \in DOMAIN s }

\* ------------------------------------------------- the elementwise kernels
\* Each kernel yields the bool it returns and the output buffer it leaves.

\* for i in 0..values.len() { results[i] = values[i] * factors[i]; }
RECURSIVE BatchLoop(_, _, _, _)
BatchLoop(i, values, factors, results) ==
    IF i > Len(values) THEN results
    ELSE BatchLoop(i + 1, values, factors,
                   [results EXCEPT ![i] = FMul(values[i], factors[i])])

\* Faulty variant: the loop starts one index late.
calculate_emissions_batch_skips_first(values, factors, results) ==
    IF Len(values) # Len(factors) \/ Len(values) # Len(results)
    THEN [ret |-> FALSE, results |-> results]
    ELSE [ret |-> TRUE, results |-> BatchLoop(2, values, factors, results)]

calculate_emissions_batch(values, factors, results) ==
    IF Len(values) # Len(factors) \/ Len(values) # Len(results)
    THEN [ret |-> FALSE, results |-> results]
    ELSE [ret |-> TRUE, results |-> BatchLoop(1, values, factors, results)]

\* for i in 0..distances.len() { results[i] = distances[i] * factors[i]; }
RECURSIVE TransportLoop(_, _, _, _)
TransportLoop(i, distances, factors, results) ==
    IF i > Len(distances) THEN results
    ELSE TransportLoop(i + 1, distances, factors,
                       [results EXCEPT ![i] = FMul(distances[i], factors[i])])

calculate_transport_emissions(distances, factors, results) ==
    IF Len(distances) # Len(factors) \/ Len(distances) # Len(results)
    THEN [ret |-> FALSE, results |-> results]
    ELSE [ret |-> TRUE, results |-> TransportLoop(1, distances, factors, results)]

\* for i in 0..consumption.len() { results[i] = consumption[i] * factors[i]; }
RECURSIVE EnergyLoop(_, _, _, _)
EnergyLoop(i, consumption, factors, results) ==
    IF i > Len(consumption) THEN results
    ELSE EnergyLoop(i + 1, consumption, factors,
                    [results EXCEPT ![i] = FMul(consumption[i], factors[i])])

\* Faulty variant: the factor is left out of the product.
calculate_energy_emissions_no_factor(consumption, factors, results) ==
    IF Len(consumption) # Len(factors) \/ Len(consumption) # Len(results)
    THEN [ret |-> FALSE, results |-> results]
    ELSE [ret |-> TRUE, results |-> consumption]

calculate_energy_emissions(consumption, factors, results) ==
    IF Len(consumption) # Len(factors) \/ Len(consumption) # Len(results)
    THEN [ret |-> FALSE, results |-> results]
    ELSE [ret |-> TRUE, results |-> EnergyLoop(1, consumption, factors, results)]

\* if tokens[i] > 0.0 { tokens[i] * co2_per_token[i] } else { co2_per_query[i] }
RECURSIVE AiLoop(_, _, _, _, _)
AiLoop(i, tokens, co2_per_token, co2_per_query, results) ==
    IF i > Len(tokens) THEN results
    ELSE AiLoop(i + 1, tokens, co2_per_token, co2_per_query,
                [results EXCEPT ![i] =
                    IF FGt(tokens[i], F(0))
                    THEN FMul(tokens[i], co2_per_token[i])
                    ELSE co2_per_query[i]])

\* Faulty variant: the branch tests tokens[i] >= 0.0.
RECURSIVE AiLoop_ge(_, _, _, _, _)
AiLoop_ge(i, tokens, co2_per_token, co2_per_query, results) ==
    IF i > Len(tokens) THEN results
    ELSE AiLoop_ge(i + 1, tokens, co2_per_token, co2_per_query,
                   [results EXCEPT ![i] =
                       IF FGe(tokens[i], F(0))
                       THEN FMul(tokens[i], co2_per_token[i])
                       ELSE co2_per_query[i]])

calculate_ai_emissions_ge(tokens, co2_per_token, co2_per_query, results) ==
    IF \/ Len(tokens) # Len(co2_per_token)
       \/ Len(tokens) # Len(co2_per_query)
       \/ Len(tokens) # Len(results)
    THEN [ret |-> FALSE, results |-> results]
    ELSE [ret |-> TRUE,
          results |-> AiLoop_ge(1, tokens, co2_per_token, co2_per_query, results)]

calculate_ai_emissions(tokens, co2_per_token, co2_per_query, results) ==
    IF \/ Len(tokens) # Len(co2_per_token)
       \/ Len(tokens) # Len(co2_per_query)
       \/ Len(tokens) # Len(results)
    THEN [ret |-> FALSE, results |-> results]
    ELSE [ret |-> TRUE,
          results |-> AiLoop(1, tokens, co2_per_token, co2_per_query, results)]

\* for i in 0..a.len() { result[i] = a[i] + b[i]; }
RECURSIVE AddLoop(_, _, _, _)
AddLoop(i, x, y, result) ==
    IF i > Len(x) THEN result
    ELSE AddLoop(i + 1, x, y, [result EXCEPT ![i] = FAdd(x[i], y[i])])

\* Faulty variant: the result buffer is cleared before the lengths are checked.
vector_add_clears_first(x, y, result) ==
    IF Len(x) # Len(y) \/ Len(x) # Len(result)
    THEN [ret |-> FALSE, results |-> [i \in 1..Len(result) |-> F(0)]]
    ELSE [ret |-> TRUE, results |-> AddLoop(1, x, y, result)]

vector_add(x, y, result) ==
    IF Len(x) # Len(y) \/ Len(x) # Len(result)
    THEN [ret |-> FALSE, results |-> result]
    ELSE [ret |-> TRUE, results |-> AddLoop(1, x, y, result)]

\* for i in 0..a.len() { result[i] = a[i] * b[i]; }
RECURSIVE MultiplyLoop(_, _, _, _)
MultiplyLoop(i, x, y, result) ==
    IF i > Len(x) THEN result
    ELSE MultiplyLoop(i + 1, x, y, [result EXCEPT ![i] = FMul(x[i], y[i])])

\* Faulty variant: the body of vector_add copied without changing the operator.
vector_multiply_adds(x, y, result) ==
    IF Len(x) # Len(y) \/ Len(x) # Len(result)
    THEN [ret |-> FALSE, results |-> result]
    ELSE [ret |-> TRUE, results |-> AddLoop(1, x, y, result)]

vector_multiply(x, y, result) ==
    IF Len(x) # Len(y) \/ Len(x) # Len(result)
    THEN [ret |-> FALSE, results |-> result]
    ELSE [ret |-> TRUE, results |-> MultiplyLoop(1, x, y, result)]

\* --------------------------------------------------- the reduction kernels
\* values.iter().sum(): the running total, left to right, from 0.
RECURSIVE SumFold(_, _, _)
SumFold(acc, i, values) ==
    IF i > Len(values) THEN acc
    ELSE SumFold(FAdd(acc, values[i]), i + 1, values)

vector_sum(values) == SumFold(F(0), 1, values)

\* Faulty variant: the is_empty short-circuit is missing.
vector_average_unguarded(values) ==
    [value |-> FDiv(vector_sum(values), FromInt(Len(values))), divided |-> TRUE]

\* Yields the value returned and whether the division was executed.
vector_average(values) ==
    IF Len(values) = 0
    THEN [value |-> F(0), divided |-> FALSE]
    ELSE [value |-> FDiv(vector_sum(values), FromInt(Len(values))),
          divided |-> TRUE]

\* values.iter().fold(f64::INFINITY, |a, &b| a.min(b))
RECURSIVE MinFold(_, _, _)
MinFold(acc, i, values) ==
    IF i > Len(values) THEN acc
    ELSE MinFold(FMin(acc, values[i]), i + 1, values)

\* Faulty variant: the fold is seeded with 0.0.
vector_min_zero_seed(values) == MinFold(F(0), 1, values)

vector_min(values) == MinFold(INFINITY, 1, values)

\* values.iter().fold(f64::NEG_INFINITY, |a, &b| a.max(b))
RECURSIVE MaxFold(_, _, _)
MaxFold(acc, i, values) ==
    IF i > Len(values) THEN acc
    ELSE MaxFold(FMax(acc, values[i]), i + 1, values)

vector_max(values) == MaxFold(NEG_INFINITY, 1, values)

\* The loop of weighted_average: <<weighted_sum, weight_sum>> after index i.
RECURSIVE WeightedLoop(_, _, _, _, _)
WeightedLoop(i, values, weights, weighted_sum, weight_sum) ==
    IF i > Len(values) THEN <<weighted_sum, weight_sum>>
    ELSE WeightedLoop(i + 1, values, weights,
                      FAdd(weighted_sum, FMul(values[i], weights[i])),
                      FAdd(weight_sum, weights[i]))

\* Faulty variant: the weight_sum > 0.0 guard is missing.
weighted_average_unguarded(values, weights) ==
    IF Len(values) # Len(weights) \/ Len(values) = 0
    THEN [value |-> F(0), divided |-> FALSE]
    ELSE LET sums == WeightedLoop(1, values, weights, F(0), F(0))
         IN  [value |-> FDiv(sums[1], sums[2]), divided |-> TRUE]

\* Yields the value returned and whether the division was executed.
weighted_average(values, weights) ==
    IF Len(values) # Len(weights) \/ Len(values) = 0
    THEN [value |-> F(0), divided |-> FALSE]
    ELSE LET sums == WeightedLoop(1, values, weights, F(0), F(0))
         IN  IF FGt(sums[2], F(0))
             THEN [value |-> FDiv(sums[1], sums[2]), divided |-> TRUE]
             ELSE [value |-> F(0), divided |-> FALSE]

\* ------------------------------------------------------------- the arena
Addrs == 1..MaxAddr

\* The pointer of a Vec that owns no storage (NonNull::dangling()).
DANGLING == 0

EmptyHeap == [p \in Addrs |-> 0]

\* Faulty variant: mem::forget is missing, the Vec is dropped on return and
\* the pointer handed out refers to a block that is free again.
allocate_drops_vec(h, size) ==
    IF size = 0 THEN { [ptr |-> DANGLING, heap |-> h] }
    ELSE { [ptr |-> p, heap |-> h] : p \in { q \in Addrs : h[q] = 0 } }

\* allocate(size): the possible outcomes <<ptr returned, heap afterwards>>.
\* Vec::with_capacity(0) allocates nothing; otherwise the allocator picks a
\* free block and mem::forget keeps it allocated after the call returns.
allocate(h, size) ==
    IF size = 0 THEN { [ptr |-> DANGLING, heap |-> h] }
    ELSE { [ptr |-> p, heap |-> [h EXCEPT ![p] = size]] :
               p \in { q \in Addrs : h[q] = 0 } }

\* deallocate(ptr, size): the possible heaps afterwards.  Dropping the Vec
\* rebuilt by from_raw_parts(ptr, size, size) frees nothing when size is 0
\* and frees the block at ptr otherwise; freeing something that is not a
\* live block of that size is undefined behaviour, any heap may result.
deallocate(h, ptr, size) ==
    IF size = 0 THEN { h }
    ELSE IF ptr \in Addrs /\ h[ptr] = size THEN { [h EXCEPT ![ptr] = 0] }
    ELSE [Addrs -> 0..MaxCount]

\* ------------------------------------------------- calls of the kernels
\* The host calls an entry point on its buffers; the kernel runs to completion.
CallBatch ==
    /\ LET r == calculate_emissions_batch(a, b, out)
       IN  out' = r.results /\ ret' = r.ret
    /\ op' = "calculate_emissions_batch"
    /\ UNCHANGED <<a, b, c, scalar, divided, heap, owned>>

CallTransport ==
    /\ LET r == calculate_transport_emissions(a, b, out)
       IN  out' = r.results /\ ret' = r.ret
    /\ op' = "calculate_transport_emissions"
    /\ UNCHANGED <<a, b, c, scalar, divided, heap, owned>>

CallEnergy ==
    /\ LET r == calculate_energy_emissions(a, b, out)
       IN  out' = r.results /\ ret' = r.ret
    /\ op' = "calculate_energy_emissions"
    /\ UNCHANGED <<a, b, c, scalar, divided, heap, owned>>

CallAi ==
    /\ LET r == calculate_ai_emissions(a, b, c, out)
       IN  out' = r.results /\ ret' = r.ret
    /\ op' = "calculate_ai_emissions"
    /\ UNCHANGED <<a, b, c, scalar, divided, heap, owned>>

CallAdd ==
    /\ LET r == vector_add(a, b, out)
       IN  out' = r.results /\ ret' = r.ret
    /\ op' = "vector_add"
    /\ UNCHANGED <<a, b, c, scalar, divided, heap, owned>>

CallMultiply ==
    /\ LET r == vector_multiply(a, b, out)
       IN  out' = r.results /\ ret' = r.ret
    /\ op' = "vector_multiply"
    /\ UNCHANGED <<a, b, c, scalar, divided, heap, owned>>

CallSum ==
    /\ scalar' = vector_sum(a)
    /\ divided' = FALSE
    /\ op' = "vector_sum"
    /\ UNCHANGED <<a, b, c, out, ret, heap, owned>>

CallAverage ==
    /\ scalar' = vector_average(a).value
    /\ divided' = vector_average(a).divided
    /\ op' = "vector_average"
    /\ UNCHANGED <<a, b, c, out, ret, heap, owned>>

CallMin ==
    /\ scalar' = vector_min(a)
    /\ divided' = FALSE
    /\ op' = "vector_min"
    /\ UNCHANGED <<a, b, c, out, ret, heap, owned>>

CallMax ==
    /\ scalar' = vector_max(a)
    /\ divided' = FALSE
    /\ op' = "vector_max"
    /\ UNCHANGED <<a, b, c, out, ret, heap, owned>>

CallWeightedAverage ==
    /\ scalar' = weighted_average(a, b).value
    /\ divided' = weighted_average(a, b).divided
    /\ op' = "weighted_average"
    /\ UNCHANGED <<a, b, c, out, ret, heap, owned>>

\* The host asks for a buffer of size elements and keeps the handle.
Allocate ==
    /\ Len(owned) < MaxOwned
    /\ \E size \in 0..MaxCount : \E r \in allocate(heap, size) :
          /\ heap' = r.heap
          /\ owned' = Append(owned, [ptr |-> r.ptr, count |-> size])
    /\ op' = "allocate"
    /\ UNCHANGED <<a, b, c, out, ret, scalar, divided>>

\* The host releases one buffer it holds, with the count it acquired it with.
Deallocate ==
    /\ \E i \in DOMAIN owned :
          /\ heap' \in deallocate(heap, owned[i].ptr, owned[i].count)
          /\ owned' = [j \in 1..(Len(owned) - 1) |->
                          IF j < i THEN owned[j] ELSE owned[j + 1]]
    /\ op' = "deallocate"
    /\ UNCHANGED <<a, b, c, out, ret, scalar, divided>>

\* ---------------------------------------------------------- specifications
\* Values the host puts in the buffers of the elementwise kernels: the first
\* buffer covers negative, zero, positive and NaN, the second a finite
\* factor and an infinite one; the output buffer starts with stale content.
FirstVals == { F(-2), F(0), F(3), NAN }
SecondVals == { F(3), INFINITY }
ThirdVals == { F(5) }
StaleVals == { F(7) }

\* Values and weights the host passes to the reduction kernels.
ReduceVals == { F(-3), F(0), F(5), F(MaxFinite), INFINITY, NEG_INFINITY, NAN }
WeightVals == { F(-2), F(0), F(1), F(3) }

\* Values passed to vector_sum / average / min / max alone: 6 + 6 + 6 is
\* the shortest total that rounds to a mean below every element.
StatsVals == ReduceVals \cup { F(6) }

Idle ==
    /\ op = "init"
    /\ ret = FALSE
    /\ scalar = F(0)
    /\ divided = FALSE

\* The elementwise kernels on every combination of buffers.
Init ==
    /\ a \in SeqsUpTo(FirstVals, MaxLen)
    /\ b \in SeqsUpTo(SecondVals, MaxLen)
    /\ c \in SeqsUpTo(ThirdVals, MaxLen)
    /\ out \in SeqsUpTo(StaleVals, MaxLen)
    /\ Idle
    /\ heap = EmptyHeap
    /\ owned = <<>>

Next ==
    \/ CallBatch
    \/ CallTransport
    \/ CallEnergy
    \/ CallAi
    \/ CallAdd
    \/ CallMultiply

Spec == Init /\ [][Next]_vars

\* The reduction kernels on every values / weights pair.
InitReduce ==
    /\ a \in SeqsUpTo(ReduceVals, MaxLen)
    /\ b \in SeqsUpTo(WeightVals, MaxLen)
    /\ c = <<>>
    /\ out = <<>>
    /\ Idle
    /\ heap = EmptyHeap
    /\ owned = <<>>

NextReduce ==
    \/ CallSum
    \/ CallAverage
    \/ CallMin
    \/ CallMax
    \/ CallWeightedAverage

SpecReduce == InitReduce /\ [][NextReduce]_vars

\* vector_sum, vector_average, vector_min and vector_max on longer buffers.
InitStats ==
    /\ a \in SeqsUpTo(StatsVals, MaxValues)
    /\ b = <<>>
    /\ c = <<>>
    /\ out = <<>>
    /\ Idle
    /\ heap = EmptyHeap
    /\ owned = <<>>

NextStats ==
    \/ CallSum
    \/ CallAverage
    \/ CallMin
    \/ CallMax

SpecStats == InitStats /\ [][NextStats]_vars

\* A host that acquires buffers, calls kernels and releases each buffer
\* once with its own count.
InitArena ==
    /\ a = <<F(3), F(-2)>>
    /\ b = <<F(3), F(3)>>
    /\ c = <<F(5), F(5)>>
    /\ out = <<F(7), F(7)>>
    /\ Idle
    /\ heap = EmptyHeap
    /\ owned = <<>>

NextArena ==
    \/ Allocate
    \/ Deallocate
    \/ Next
    \/ NextReduce

SpecArena == InitArena /\ [][NextArena]_vars

\* ------------------------------------------------------------ properties
Validated ==
    { "calculate_emissions_batch", "calculate_transport_emissions",
      "calculate_energy_emissions", "calculate_ai_emissions",
      "vector_add", "vector_multiply" }

\* Whether the buffers the entry point name is called on all have one length.
LengthsMatch(name) ==
    /\ Len(a) = Len(b)
    /\ Len(a) = Len(out)
    /\ name = "calculate_ai_emissions" => Len(a) = Len(c)

\* C1: a validated kernel called on buffers whose lengths are not all equal
\* returns false and leaves every element of every buffer as it was (so it
\* returns true only when all lengths are equal).
C1_MismatchWritesNothing ==
    [][ (op' \in Validated /\ ~LengthsMatch(op'))
            => (ret' = FALSE /\ a' = a /\ b' = b /\ c' = c /\ out' = out) ]_vars

C1_Witness ==
    /\ op = "calculate_ai_emissions"
    /\ ~LengthsMatch(op)
    /\ ret = FALSE
    /\ Len(a) >= 1 /\ Len(b) >= 1 /\ Len(out) >= 1

\* C2: calculate_emissions_batch on buffers of one length n returns true and
\* leaves results[i] = values[i] * factors[i] at every index 1..n (no index
\* keeps its prior value), with values and factors unchanged.
C2_BatchMultiplies ==
    [][ (op' = "calculate_emissions_batch" /\ LengthsMatch(op'))
            => /\ ret' = TRUE
               /\ Len(out') = Len(a)
               /\ \A i \in 1..Len(a) : out'[i] = FMul(a[i], b[i])
               /\ a' = a /\ b' = b ]_vars

C2_Witness ==
    /\ op = "calculate_emissions_batch"
    /\ ret = TRUE
    /\ Len(a) >= 2
    /\ \A i \in 1..Len(a) : out[i] = FMul(a[i], b[i]) /\ out[i] \notin StaleVals

\* C3: calculate_ai_emissions on buffers of one length returns true and at
\* every index leaves tokens[i] * co2_per_token[i] when tokens[i] > 0 and
\* co2_per_query[i] when tokens[i] = 0 or tokens[i] < 0.
C3_AiBranch ==
    [][ (op' = "calculate_ai_emissions" /\ LengthsMatch(op'))
            => /\ ret' = TRUE
               /\ Len(out') = Len(a)
               /\ \A i \in 1..Len(a) :
                     /\ FGt(a[i], F(0)) => out'[i] = FMul(a[i], b[i])
                     /\ (a[i] = F(0) \/ FGt(F(0), a[i])) => out'[i] = c[i] ]_vars

C3_Witness ==
    /\ op = "calculate_ai_emissions"
    /\ ret = TRUE
    /\ \E i, k \in 1..Len(a) :
          /\ a[i] = F(0) /\ out[i] = c[i] /\ out[i] # FMul(a[i], b[i])
          /\ FGt(a[k], F(0)) /\ out[k] = FMul(a[k], b[k]) /\ out[k] # c[k]

\* The two running sums of weighted_average's loop.
WeightedSums == WeightedLoop(1, a, b, F(0), F(0))

\* C4: for non-empty values and weights of one length, weighted_average
\* returns sum(values[i] * weights[i]) / sum(weights[i]) whenever the total
\* weight is not exactly 0, a negative total included; 0 is the result only
\* of empty input, a length mismatch or a total weight of exactly 0.
C4_QuotientUnlessZeroWeight ==
    (op = "weighted_average" /\ Len(a) = Len(b) /\ Len(a) > 0
        /\ WeightedSums[2] # F(0))
        => scalar = FDiv(WeightedSums[1], WeightedSums[2])

\* C5: weighted_average on values and weights of one length whose weights
\* are all 0 returns 0 and does not execute the division.
C5_ZeroWeights ==
    (op = "weighted_average" /\ Len(a) = Len(b)
        /\ \A i \in 1..Len(b) : b[i] = F(0))
        => (scalar = F(0) /\ divided = FALSE)

C5_Witness ==
    /\ op = "weighted_average"
    /\ Len(a) = Len(b) /\ Len(a) >= 2
    /\ \A i \in 1..Len(b) : b[i] = F(0)
    /\ \E i \in 1..Len(a) : a[i] = INFINITY
    /\ scalar = F(0)

\* C6: on empty input vector_sum returns 0, vector_average returns 0 without
\* dividing, vector_min returns +infinity, vector_max returns -infinity and
\* weighted_average of two empty buffers returns 0.
C6_EmptyFallbacks ==
    Len(a) = 0
        => /\ op = "vector_sum" => scalar = F(0)
           /\ op = "vector_average" => (scalar = F(0) /\ divided = FALSE)
           /\ op = "vector_min" => scalar = INFINITY
           /\ op = "vector_max" => scalar = NEG_INFINITY
           /\ (op = "weighted_average" /\ Len(b) = 0)
                 => (scalar = F(0) /\ divided = FALSE)

C6_Witness ==
    /\ Len(a) = 0
    /\ op = "vector_min"
    /\ scalar = INFINITY

NoNaN(s) == \A i \in 1..Len(s) : ~IsNaN(s[i])
AllFinite(s) == \A i \in 1..Len(s) : IsFinite(s[i])

\* The exact total of the first k elements of an all-finite buffer.
RECURSIVE PrefixTotal(_, _)
PrefixTotal(s, k) == IF k = 0 THEN 0 ELSE PrefixTotal(s, k - 1) + s[k].v

\* An all-finite buffer whose running total, count and mean are all
\* representable: summing and dividing neither round nor overflow.
ExactMean(s) ==
    /\ AllFinite(s)
    /\ \A k \in 1..Len(s) : Abs(PrefixTotal(s, k)) \in Rep
    /\ Len(s) \in Rep
    /\ Abs(PrefixTotal(s, Len(s))) % Len(s) = 0
    /\ (Abs(PrefixTotal(s, Len(s))) \div Len(s)) \in Rep

\* C7 as stated: on every non-empty buffer vector_sum returns the total,
\* vector_average the total divided by the count, vector_min an element
\* that is <= every element, vector_max an element that is >= every
\* element, hence vector_min <= vector_average <= vector_max; values is
\* not modified.
C7_Original ==
    [][ Len(a) > 0
            => /\ a' = a
               /\ op' = "vector_sum" => scalar' = SumFold(F(0), 1, a)
               /\ op' = "vector_average"
                     => /\ scalar' = FDiv(SumFold(F(0), 1, a), FromInt(Len(a)))
                        /\ FLe(MinFold(INFINITY, 1, a), scalar')
                        /\ FLe(scalar', MaxFold(NEG_INFINITY, 1, a))
               /\ op' = "vector_min"
                     => (scalar' \in Range(a) /\ \A i \in 1..Len(a) : FLe(scalar', a[i]))
               /\ op' = "vector_max"
                     => (scalar' \in Range(a) /\ \A i \in 1..Len(a) : FGe(scalar', a[i]))
      ]_vars

\* C7 as amended: on every non-empty buffer without NaN, vector_min returns
\* an element that is <= every element and vector_max an element that is >=
\* every element; vector_average returns the f64 quotient of vector_sum's
\* result by the count; when all elements are finite and the running total,
\* the count and the mean are exactly representable, vector_sum returns the
\* exact total, vector_average the exact mean, and vector_min <=
\* vector_average <= vector_max; values is not modified.
C7_Amended ==
    [][ Len(a) > 0
            => /\ a' = a
               /\ op' = "vector_sum" => scalar' = SumFold(F(0), 1, a)
               /\ (op' = "vector_sum" /\ ExactMean(a))
                     => scalar' = F(PrefixTotal(a, Len(a)))
               /\ op' = "vector_average"
                     => /\ scalar' = FDiv(SumFold(F(0), 1, a), FromInt(Len(a)))
                        /\ divided' = TRUE
               /\ (op' = "vector_average" /\ ExactMean(a))
                     => /\ scalar'.v * Len(a) = PrefixTotal(a, Len(a))
                        /\ FLe(MinFold(INFINITY, 1, a), scalar')
                        /\ FLe(scalar', MaxFold(NEG_INFINITY, 1, a))
               /\ (op' = "vector_min" /\ NoNaN(a))
                     => (scalar' \in Range(a) /\ \A i \in 1..Len(a) : FLe(scalar', a[i]))
               /\ (op' = "vector_max" /\ NoNaN(a))
                     => (scalar' \in Range(a) /\ \A i \in 1..Len(a) : FGe(scalar', a[i]))
      ]_vars

C7_Witness ==
    /\ op = "vector_average"
    /\ Len(a) >= 2
    /\ ExactMean(a)
    /\ \E i, j \in 1..Len(a) : a[i] # a[j]
    /\ FLe(vector_min(a), scalar) /\ FLe(scalar, vector_max(a))

\* C8: on buffers of one length vector_add returns true with result[i] =
\* a[i] + b[i] and vector_multiply returns true with result[i] = a[i] * b[i]
\* at every index, whatever an earlier call left in the result buffer.
C8_AddMultiply ==
    [][ /\ (op' = "vector_add" /\ LengthsMatch(op'))
            => /\ ret' = TRUE
               /\ Len(out') = Len(a)
               /\ \A i \in 1..Len(a) : out'[i] = FAdd(a[i], b[i])
        /\ (op' = "vector_multiply" /\ LengthsMatch(op'))
            => /\ ret' = TRUE
               /\ Len(out') = Len(a)
               /\ \A i \in 1..Len(a) : out'[i] = FMul(a[i], b[i]) ]_vars

C8_Witness ==
    /\ op = "vector_multiply"
    /\ ret = TRUE
    /\ Len(a) >= 2
    /\ \A i \in 1..Len(a) :
          /\ out[i] = FMul(a[i], b[i])
          /\ out[i] # FAdd(a[i], b[i])
          /\ out[i] \notin StaleVals

\* C9: every buffer the host holds with a non-zero count is backed by a live
\* block of at least that capacity, every live block belongs to exactly one
\* held buffer, so the live blocks are those acquired and not yet released,
\* no kernel call changes them, and none is left once all are released.
C9_LiveIsAcquiredMinusReleased ==
    /\ \A i \in DOMAIN owned :
          IF owned[i].count = 0 THEN owned[i].ptr = DANGLING
          ELSE owned[i].ptr \in Addrs /\ heap[owned[i].ptr] >= owned[i].count
    /\ \A p \in Addrs :
          heap[p] > 0 =>
              Cardinality({ i \in DOMAIN owned :
                              owned[i].ptr = p /\ owned[i].count > 0 }) = 1
    /\ owned = <<>> => heap = EmptyHeap

C9_Witness ==
    /\ op = "deallocate"
    /\ Len(owned) >= 2
    /\ \E p, q \in Addrs : heap[p] > 0 /\ heap[q] = 0

\* C10: on every triple of buffers, of equal or unequal lengths,
\* calculate_transport_emissions and calculate_energy_emissions return the
\* bool and leave the output that calculate_emissions_batch does.
C10_SameAsBatch ==
    /\ calculate_transport_emissions(a, b, out) = calculate_emissions_batch(a, b, out)
    /\ calculate_energy_emissions(a, b, out) = calculate_emissions_batch(a, b, out)
    /\ op \in { "calculate_transport_emissions", "calculate_energy_emissions" }
          => /\ ret = calculate_emissions_batch(a, b, out).ret
             /\ out = calculate_emissions_batch(a, b, out).results

C10_Witness ==
    /\ op = "calculate_transport_emissions"
    /\ ret = TRUE
    /\ Len(a) >= 2
    /\ out = calculate_emissions_batch(a, b, out).results
    /\ \A i \in 1..Len(out) : out[i] \notin StaleVals

====
